---- MODULE Spec2Model ----
(***************************************************************************)
(* Model of the Actual Currents API (backend/app): the process-wide Zarr   *)
(* dataset cache (get_dataset), the /mesh bounding-box query               *)
(* (get_mesh_data), the /info endpoint (get_dataset_info) and the harmonic *)
(* synthesis (predict_currents).                                           *)
(*                                                                         *)
(* Conventions.  Arrays are functions over 0..n-1, as numpy indexes them.  *)
(* Coordinates, depths, amplitudes are integers.  Angles are counted in    *)
(* quarter turns (pi/2 rad), so cos takes the values 1, 0, -1, 0; phases   *)
(* are stored in degrees (multiples of 90) as in the store.  Instants are  *)
(* POSIX seconds.                                                          *)
(*                                                                         *)
(* Scheduling.  Both endpoints are `async def` coroutines that contain no  *)
(* await: the event loop runs each handler call to completion before the   *)
(* next one starts, so one handler call is one atomic action, and          *)
(* concurrent requests are handled in an arbitrary order.                  *)
(***************************************************************************)
EXTENDS Integers, Sequences, FiniteSets, TLC

VARIABLES
    zarr,        \* the Sorted Mesh held by the storage the settings point at
    settings,    \* the Settings instance (get_settings, cached)
    _ds_cache,   \* currents.py module global: None or the opened dataset
    opens,       \* number of xr.open_zarr executions so far in this process
    handled,     \* number of requests handled so far
    last,        \* the request handled last, the dataset object it got, its outcome
    before,      \* observer: what `last` was before the latest request (where kept)
    build        \* the convert_to_zarr run: None, or its position and data

vars == <<zarr, settings, _ds_cache, opens, handled, last, before, build>>

(***************************************************************************)
(* Bounds of the model.                                                    *)
(***************************************************************************)
MaxCoord == 1        \* node and box coordinates range over 0..MaxCoord
MaxNodes == 4        \* nodes of a generated mesh
MaxElements == 1     \* triangles of a generated mesh
MaxRequests == 3     \* requests one process handles
MaxTime == 1         \* instants are REFERENCE_TIME + 0..MaxTime seconds

(***************************************************************************)
(* Program constants.                                                      *)
(***************************************************************************)
REFERENCE_TIME == 946684800          \* 2000-01-01T00:00:00Z in POSIX seconds
NodeCeiling == 500000                \* the literal of `if num_nodes > 500_000`
DEFAULT_MAX_NODES_PER_REQUEST == 500000

None == <<>>

Range0(n) == 0..(n - 1)
Size(a) == Cardinality(DOMAIN a)

(***************************************************************************)
(* The Sorted Mesh as the Zarr store holds it (the xr.Dataset written by   *)
(* convert_to_zarr): lat, lon, depth over `node`; u_amp, v_amp, u_phase,   *)
(* v_phase over (node, constituent); elements over (element, nv);          *)
(* tidefreqs and constituent_names over `constituent`.                     *)
(***************************************************************************)
StoreConstituents == [c \in Range0(2) |-> IF c = 0 THEN "M2" ELSE "S2"]
StoreTidefreqs == [c \in Range0(2) |-> c + 1]     \* quarter turns per second

Dataset(lat, lon, elements) ==
    [ lat |-> lat,
      lon |-> lon,
      depth |-> [i \in DOMAIN lat |-> 10 + i],
      u_amp |-> [i \in DOMAIN lat |-> [c \in DOMAIN StoreConstituents |-> 1 + ((i + c) % 2)]],
      v_amp |-> [i \in DOMAIN lat |-> [c \in DOMAIN StoreConstituents |-> 2 + (i % 2)]],
      u_phase |-> [i \in DOMAIN lat |-> [c \in DOMAIN StoreConstituents |-> 90 * ((i + c) % 4)]],
      v_phase |-> [i \in DOMAIN lat |-> [c \in DOMAIN StoreConstituents |-> 90 * ((i + 2 * c + 1) % 4)]],
      elements |-> elements,
      tidefreqs |-> StoreTidefreqs,
      constituent_names |-> StoreConstituents ]

Coords == 0..MaxCoord

\* A triangle: three distinct node indices within [0, n).
Triangles(n) ==
    {t \in [Range0(3) -> Range0(n)] : t[0] # t[1] /\ t[1] # t[2] /\ t[0] # t[2]}

ElementArrays(n) == UNION {[Range0(m) -> Triangles(n)] : m \in 0..MaxElements}

GeneratedMeshes ==
    UNION { { Dataset(lat, lon, el) :
                lat \in [Range0(n) -> Coords], lon \in [Range0(n) -> Coords],
                el \in ElementArrays(n) } : n \in 1..MaxNodes }

\* The mesh of the spec's scenario: nodes (0,0),(0,1),(1,0),(1,1), triangle (0,1,2).
ScenarioMesh ==
    Dataset([i \in Range0(4) |-> i \div 2], [i \in Range0(4) |-> i % 2],
            [e \in Range0(1) |-> [j \in Range0(3) |-> j]])

\* The same triangle with the fourth node moved out to (2,2).
ScenarioMeshApart ==
    Dataset([i \in Range0(4) |-> IF i = 3 THEN 2 ELSE i \div 2],
            [i \in Range0(4) |-> IF i = 3 THEN 2 ELSE i % 2],
            [e \in Range0(1) |-> [j \in Range0(3) |-> j]])

\* Four nodes of which the first lies apart, and the triangle (1,2,3).
ShiftedMesh ==
    Dataset([i \in Range0(4) |-> IF i = 0 THEN 2 ELSE (i - 1) \div 2],
            [i \in Range0(4) |-> IF i = 0 THEN 2 ELSE (i - 1) % 2],
            [e \in Range0(1) |-> [j \in Range0(3) |-> j + 1]])

Meshes == GeneratedMeshes \cup {ScenarioMesh, ScenarioMeshApart}

(***************************************************************************)
(* Requests.  A /mesh request carries the four box bounds and the optional *)
(* `time` string: absent, empty (?time=), unparseable, or an ISO-8601       *)
(* instant written with a trailing Z or without any offset.  `if time:`    *)
(* takes the empty string like an absent parameter.                        *)
(***************************************************************************)
Instants == {REFERENCE_TIME + k : k \in 0..MaxTime}

TimeParams ==
    {[kind |-> "none"], [kind |-> "empty"], [kind |-> "bad"]}
    \cup {[kind |-> "iso", t |-> t, z |-> z] : t \in Instants, z \in BOOLEAN}

MeshRequests ==
    [ min_lat : Coords, max_lat : Coords,
      min_lon : Coords, max_lon : Coords, time : TimeParams ]

(***************************************************************************)
(* get_dataset (currents.py 22-37).  `data` is the store at the place the  *)
(* settings name (LOCAL_ZARR_PATH or the S3 bucket: both branches end in   *)
(* the same xr.open_zarr call).  `storageOk` is the outcome of that call   *)
(* should one be made: TRUE when the store opens, FALSE when the open      *)
(* raises (local path missing, S3 object absent or denied).                *)
(* The opened dataset is an object; its identity is the ordinal of the     *)
(* open that produced it.                                                  *)
(***************************************************************************)
open_zarr(data, nOpens) == [obj |-> nOpens + 1, data |-> data]

\* (variants of get_dataset used to test the properties below)
get_dataset_reopen(cache, data, nOpens, storageOk) ==
    IF storageOk
    THEN [ raised |-> FALSE, cache |-> open_zarr(data, nOpens),
           ds |-> open_zarr(data, nOpens), opens |-> nOpens + 1 ]
    ELSE [ raised |-> TRUE, cache |-> cache, ds |-> None, opens |-> nOpens + 1 ]

get_dataset_swallow(cache, data, nOpens, storageOk) ==
    IF cache = None
    THEN IF storageOk
         THEN [ raised |-> FALSE, cache |-> open_zarr(data, nOpens),
                ds |-> open_zarr(data, nOpens), opens |-> nOpens + 1 ]
         ELSE [ raised |-> FALSE, cache |-> cache,
                ds |-> open_zarr([data EXCEPT !.elements = <<>>], nOpens),
                opens |-> nOpens + 1 ]
    ELSE [ raised |-> FALSE, cache |-> cache, ds |-> cache, opens |-> nOpens ]

get_dataset_partial(cache, data, nOpens, storageOk) ==
    IF cache = None
    THEN IF storageOk
         THEN [ raised |-> FALSE, cache |-> open_zarr(data, nOpens),
                ds |-> open_zarr(data, nOpens), opens |-> nOpens + 1 ]
         ELSE [ raised |-> TRUE,
                cache |-> open_zarr([data EXCEPT !.elements = <<>>], nOpens),
                ds |-> None, opens |-> nOpens + 1 ]
    ELSE [ raised |-> FALSE, cache |-> cache, ds |-> cache, opens |-> nOpens ]

get_dataset(cache, data, nOpens, storageOk) ==
    IF cache = None
    THEN IF storageOk
         THEN [ raised |-> FALSE, cache |-> open_zarr(data, nOpens),
                ds |-> open_zarr(data, nOpens), opens |-> nOpens + 1 ]
         ELSE [ raised |-> TRUE, cache |-> cache, ds |-> None, opens |-> nOpens + 1 ]
    ELSE [ raised |-> FALSE, cache |-> cache, ds |-> cache, opens |-> nOpens ]

(***************************************************************************)
(* numpy / xarray helpers, as the handler uses them.                       *)
(***************************************************************************)
\* np.where(mask)[0]: the indices where mask is true, ascending.
np_where(mask) ==
    LET S == {i \in DOMAIN mask : mask[i]}
        n == Cardinality(S)
    IN  [j \in Range0(n) |-> CHOOSE i \in S : Cardinality({x \in S : x < i}) = j]

\* a[mask] for a boolean mask: the rows of a where mask is true, in order.
np_compress(a, mask) ==
    LET idx == np_where(mask) IN [j \in DOMAIN idx |-> a[idx[j]]]

\* np.isin(column, test_elements)
np_isin(column, test_elements) ==
    [e \in DOMAIN column |-> \E j \in DOMAIN test_elements : test_elements[j] = column[e]]

\* ds.where(mask, drop=True) for a mask over `node`: the node dimension is cut
\* down to the nodes where the mask holds; a variable without the node
\* dimension is broadcast against the mask and gains it.
where_drop(data, mask) ==
    [ lat |-> np_compress(data.lat, mask),
      lon |-> np_compress(data.lon, mask),
      depth |-> np_compress(data.depth, mask),
      u_amp |-> np_compress(data.u_amp, mask),
      v_amp |-> np_compress(data.v_amp, mask),
      u_phase |-> np_compress(data.u_phase, mask),
      v_phase |-> np_compress(data.v_phase, mask),
      tidefreqs |-> [c \in DOMAIN data.tidefreqs |->
                        [j \in DOMAIN np_where(mask) |-> data.tidefreqs[c]]],
      constituent_names |-> [c \in DOMAIN data.constituent_names |->
                        [j \in DOMAIN np_where(mask) |-> data.constituent_names[c]]] ]

(***************************************************************************)
(* The query engine of get_mesh_data (currents.py 63-131).                 *)
(***************************************************************************)
lat_mask_half_open(data, req) ==
    [i \in DOMAIN data.lat |-> data.lat[i] >= req.min_lat /\ data.lat[i] < req.max_lat]

\* (variant that puts the two latitude bounds in order before it compares)
lat_mask_ordered_bounds(data, req) ==
    [i \in DOMAIN data.lat |->
        \/ data.lat[i] >= req.min_lat /\ data.lat[i] <= req.max_lat
        \/ data.lat[i] >= req.max_lat /\ data.lat[i] <= req.min_lat]

lat_mask(data, req) ==
    [i \in DOMAIN data.lat |-> data.lat[i] >= req.min_lat /\ data.lat[i] <= req.max_lat]

lon_mask_open_min(data, req) ==
    [i \in DOMAIN data.lon |-> data.lon[i] > req.min_lon /\ data.lon[i] <= req.max_lon]

lon_mask(data, req) ==
    [i \in DOMAIN data.lon |-> data.lon[i] >= req.min_lon /\ data.lon[i] <= req.max_lon]

bbox_mask(data, req) ==
    [i \in DOMAIN data.lat |-> lat_mask(data, req)[i] /\ lon_mask(data, req)[i]]

node_indices(data, req) == np_where(bbox_mask(data, req))

valid_mask_two_columns(all_elements, nodeIndices) ==
    LET column(j) == [e \in DOMAIN all_elements |-> all_elements[e][j]]
        mask_0 == np_isin(column(0), nodeIndices)
        mask_1 == np_isin(column(1), nodeIndices)
    IN  [e \in DOMAIN all_elements |-> mask_0[e] /\ mask_1[e]]

valid_mask(all_elements, nodeIndices) ==
    LET column(j) == [e \in DOMAIN all_elements |-> all_elements[e][j]]
        mask_0 == np_isin(column(0), nodeIndices)
        mask_1 == np_isin(column(1), nodeIndices)
        mask_2 == np_isin(column(2), nodeIndices)
    IN  [e \in DOMAIN all_elements |-> mask_0[e] /\ mask_1[e] /\ mask_2[e]]

valid_elements(all_elements, nodeIndices) ==
    np_compress(all_elements, valid_mask(all_elements, nodeIndices))

node_idx_mapping_uncompacted(nodeIndices) ==
    [orig \in {nodeIndices[j] : j \in DOMAIN nodeIndices} |-> orig]

\* {orig_idx: new_idx for new_idx, orig_idx in enumerate(node_indices)}
node_idx_mapping(nodeIndices) ==
    [orig \in {nodeIndices[j] : j \in DOMAIN nodeIndices} |->
        CHOOSE new \in DOMAIN nodeIndices :
            /\ nodeIndices[new] = orig
            /\ \A other \in DOMAIN nodeIndices : nodeIndices[other] = orig => other <= new]

\* dict.get: the value under key, None when the key is absent
dict_get(mapping, key) == IF key \in DOMAIN mapping THEN mapping[key] ELSE None

elements_not_remapped(validElements, mapping) == validElements

\* np.vectorize(node_idx_mapping.get)(valid_elements), or np.array([]) when empty
elements_remapped(validElements, mapping) ==
    [e \in DOMAIN validElements |->
        [j \in Range0(3) |-> dict_get(mapping, validElements[e][j])]]

(***************************************************************************)
(* Harmonic synthesis (tidal_calc.py).                                     *)
(***************************************************************************)
_STANDARD_CONST_INDICES ==
    [name \in {"M2", "S2", "N2", "K1", "O1", "P1", "M4", "M6"} |->
        CASE name = "M2" -> 0 [] name = "S2" -> 1 [] name = "N2" -> 2
          [] name = "K1" -> 3 [] name = "O1" -> 4 [] name = "P1" -> 5
          [] name = "M4" -> 6 [] name = "M6" -> 7]

\* (variant of _get_ttide_indices whose fallback counts the unmapped names
\* seen so far instead of taking len(indices))
_get_ttide_indices_count_unmapped(constituent_names) ==
    [i \in DOMAIN constituent_names |->
        IF constituent_names[i] \in DOMAIN _STANDARD_CONST_INDICES
        THEN _STANDARD_CONST_INDICES[constituent_names[i]]
        ELSE Cardinality({j \in DOMAIN constituent_names :
                            j < i /\ constituent_names[j] \notin DOMAIN _STANDARD_CONST_INDICES})]

\* One index per name: the mapped index, else len(indices) at that point of
\* the loop, which is the position of the name.
_get_ttide_indices(constituent_names) ==
    [i \in DOMAIN constituent_names |->
        IF constituent_names[i] \in DOMAIN _STANDARD_CONST_INDICES
        THEN _STANDARD_CONST_INDICES[constituent_names[i]]
        ELSE i]

\* The lines print() writes while _get_ttide_indices runs: one warning per
\* name outside the standard mapping, in list order, quoting the name.
_get_ttide_warnings(constituent_names) ==
    np_compress(constituent_names,
                [i \in DOMAIN constituent_names |->
                    constituent_names[i] \notin DOMAIN _STANDARD_CONST_INDICES])

\* t_vuf('nodal', mpl_date, ju, lat) of the ttide library: per requested
\* constituent the equilibrium argument v and the phase lag u, here in
\* quarter cycles, and the amplitude factor f.  The library is outside the
\* repository; this table stands for it.  It depends on the constituent and
\* the instant only.
t_vuf(mpl_date, ju, lat) ==
    [ v |-> [i \in DOMAIN ju |-> (ju[i] + mpl_date) % 4],
      u |-> [i \in DOMAIN ju |-> ju[i] % 2],
      f |-> [i \in DOMAIN ju |-> 1 + (ju[i] % 2)] ]

\* np.cos of an angle counted in quarter turns
cos(angle) == CASE angle % 4 = 0 -> 1 [] angle % 4 = 1 -> 0
                [] angle % 4 = 2 -> -1 [] angle % 4 = 3 -> 0

\* np.deg2rad, degrees to quarter turns
deg2rad(deg) == deg \div 90

\* sum over the constituents 0..n-1 in this order, as the for loop adds them
RECURSIVE SumTerms(_, _)
SumTerms(term, n) == IF n = 0 THEN 0 ELSE SumTerms(term, n - 1) + term[n - 1]

\* np.squeeze drops every axis of length one: an array of one element becomes
\* a 0-d array, which has no axis left to index.
np_squeeze(a) == [ndim |-> IF Size(a) = 1 THEN 0 ELSE 1, values |-> a]

\* (variant that reads a naive datetime as local time, in a zone one unit
\* ahead of UTC, as time_utc.astimezone(timezone.utc) would)
as_utc_local(time_utc) == IF time_utc.aware THEN time_utc.t ELSE time_utc.t - 1

\* if time_utc.tzinfo is None: time_utc = time_utc.replace(tzinfo=timezone.utc)
\* The wall-clock fields are kept and labelled UTC.
as_utc(time_utc) == time_utc.t

\* time_utc is [t, aware]; a naive datetime is taken as UTC (replace tzinfo).
\* `raised`: v_rad[i] on a 0-d array raises IndexError in the first pass of the
\* loop over the constituents.
predict_currents(u_amp, v_amp, u_phase, v_phase, tidefreqs, constituent_names, time_utc, lat) ==
    LET ttide_indices == _get_ttide_indices(constituent_names)
        nodal == t_vuf(as_utc(time_utc), ttide_indices, lat)
        v_node == np_squeeze(nodal.v)
        u_node == np_squeeze(nodal.u)
        f_node == np_squeeze(nodal.f)
        t_seconds == as_utc(time_utc) - REFERENCE_TIME
        omega_t == [i \in DOMAIN tidefreqs |-> tidefreqs[i] * t_seconds]
        phase_u(n, i) == v_node.values[i] + omega_t[i] + u_node.values[i] - deg2rad(u_phase[n][i])
        phase_v(n, i) == v_node.values[i] + omega_t[i] + u_node.values[i] - deg2rad(v_phase[n][i])
    IN  IF Size(constituent_names) >= 1 /\ v_node.ndim = 0
        THEN [ raised |-> TRUE, u |-> None, v |-> None ]
        ELSE [ raised |-> FALSE,
               u |-> [n \in DOMAIN u_amp |->
                        SumTerms([i \in DOMAIN constituent_names |->
                                     f_node.values[i] * u_amp[n][i] * cos(phase_u(n, i))],
                                 Size(constituent_names))],
               v |-> [n \in DOMAIN v_amp |->
                        SumTerms([i \in DOMAIN constituent_names |->
                                     f_node.values[i] * v_amp[n][i] * cos(phase_v(n, i))],
                                 Size(constituent_names))] ]

(***************************************************************************)
(* get_mesh_data (currents.py 41-207): the whole handler as a function of  *)
(* the cache, the storage, the request and the clock.  It yields the cache *)
(* it leaves, the open count, the HTTP outcome, and `ran`, the stages of   *)
(* the handler body that were executed, in order.                          *)
(***************************************************************************)
\* detail is the message and what it quotes
HTTPException(status, detail) == [status |-> status, detail |-> detail]

\* datetime.fromisoformat(time.replace('Z', '+00:00')) / datetime.now(utc)
prediction_time(time, now) ==
    IF time.kind = "iso" THEN [t |-> time.t, aware |-> time.z]
    ELSE [t |-> now, aware |-> TRUE]

\* str(x) as the response serialises it; a text is the sequence of its
\* tokens.  str of a name is the name; str of an array of names is numpy's
\* listing of it, the items between brackets.
str_name(name) == <<name>>
str_array(a) == <<"[">> \o [i \in 1..Size(a) |-> a[i - 1]] \o <<"]">>

\* [str(name) for name in values]: over a 1-d array the items are names, over
\* a 2-d array they are its rows.
str_each(values, ndim) ==
    [c \in DOMAIN values |-> IF ndim = 1 THEN str_name(values[c]) ELSE str_array(values[c])]

mesh_body(ds, req, time) ==
    LET data == ds.data
        mask == bbox_mask(data, req)
        nodes_ds == where_drop(data, mask)
        nodeIndices == node_indices(data, req)
        remapped == elements_remapped(valid_elements(data.elements, nodeIndices),
                                      node_idx_mapping(nodeIndices))
        vel == predict_currents(nodes_ds.u_amp, nodes_ds.v_amp, nodes_ds.u_phase,
                                nodes_ds.v_phase, data.tidefreqs,
                                data.constituent_names, time, settings.LATITUDE_FOR_NODAL)
    IN  IF vel.raised
        THEN HTTPException(500, <<"Internal server error", "IndexError">>)
        ELSE [ status |-> 200,
               bbox |-> [min_lat |-> req.min_lat, max_lat |-> req.max_lat,
                         min_lon |-> req.min_lon, max_lon |-> req.max_lon],
               time |-> time,
               nodes |-> [count |-> Size(nodes_ds.lat), lat |-> nodes_ds.lat,
                          lon |-> nodes_ds.lon, depth |-> nodes_ds.depth,
                          u_velocity |-> vel.u, v_velocity |-> vel.v],
               elements |-> [count |-> Size(remapped), triangles |-> remapped],
               constituents |-> str_each(nodes_ds.constituent_names, 2) ]

count_check_ceiling_only(num_nodes) ==
    IF num_nodes > NodeCeiling THEN "too_many" ELSE "ok"

\* The two checks on the match count (currents.py 75-82).
count_check(num_nodes) ==
    IF num_nodes = 0 THEN "empty"
    ELSE IF num_nodes > NodeCeiling THEN "too_many"
    ELSE "ok"

\* (variant that parses the time parameter before it counts the nodes)
request_checks_time_first(num_nodes, time) ==
    IF time.kind = "bad" THEN "bad_time" ELSE count_check(num_nodes)

\* The checks of the handler in the order it makes them: the two on the match
\* count (75-82), then the parse of the time parameter (134-138).
request_checks(num_nodes, time) ==
    IF count_check(num_nodes) # "ok" THEN count_check(num_nodes)
    ELSE IF time.kind = "bad" THEN "bad_time"
    ELSE "ok"

\* The handler body once get_dataset has returned `ds` (currents.py 63-202).
mesh_outcome(ds, req, now) ==
    LET num_nodes == Size(node_indices(ds.data, req))
        check == request_checks(num_nodes, req.time)
    IN  IF check = "empty"
        THEN [ resp |-> HTTPException(404, <<"No nodes found in bounding box">>),
               ran |-> <<"load", "select">> ]
        ELSE IF check = "too_many"
        THEN [ resp |-> HTTPException(400, <<"Too many nodes", num_nodes>>),
               ran |-> <<"load", "select">> ]
        ELSE IF check = "bad_time"
        THEN [ resp |-> HTTPException(400, <<"Invalid time format", req.time>>),
               ran |-> <<"load", "select", "filter", "remap", "extract">> ]
        ELSE [ resp |-> mesh_body(ds, req, prediction_time(req.time, now)),
               ran |-> <<"load", "select", "filter", "remap", "extract", "synthesis">> ]

\* (variant of get_mesh_data that converts the phases of the dataset to radians
\* in place, np.deg2rad(..., out=...), instead of into new arrays)
get_mesh_data_phase_inplace(cache, data, nOpens, storageOk, req, now) ==
    LET got == get_dataset(cache, data, nOpens, storageOk)
        outcome == mesh_outcome(got.ds, req, now)
        converted(phase) == [n \in DOMAIN phase |->
                               [c \in DOMAIN phase[n] |-> deg2rad(phase[n][c])]]
    IN  IF got.raised
        THEN [ cache |-> got.cache, opens |-> got.opens, store |-> None,
               resp |-> HTTPException(500, <<"Internal server error", "open failed">>),
               ran |-> <<"load">> ]
        ELSE [ cache |-> [got.cache EXCEPT !.data.u_phase = converted(@),
                                           !.data.v_phase = converted(@)],
               opens |-> got.opens, store |-> [obj |-> got.ds.obj],
               resp |-> outcome.resp, ran |-> outcome.ran ]

\* (variant of get_mesh_data that writes the remapped triangles back into the
\* elements array of the dataset)
get_mesh_data_inplace(cache, data, nOpens, storageOk, req, now) ==
    LET got == get_dataset(cache, data, nOpens, storageOk)
        outcome == mesh_outcome(got.ds, req, now)
        idx == node_indices(got.ds.data, req)
        valid == valid_mask(got.ds.data.elements, idx)
        written == [e \in DOMAIN got.ds.data.elements |->
                      IF valid[e]
                      THEN [j \in Range0(3) |->
                              dict_get(node_idx_mapping(idx), got.ds.data.elements[e][j])]
                      ELSE got.ds.data.elements[e]]
    IN  IF got.raised
        THEN [ cache |-> got.cache, opens |-> got.opens, store |-> None,
               resp |-> HTTPException(500, <<"Internal server error", "open failed">>),
               ran |-> <<"load">> ]
        ELSE [ cache |-> [got.cache EXCEPT !.data.elements = written],
               opens |-> got.opens, store |-> [obj |-> got.ds.obj],
               resp |-> outcome.resp, ran |-> outcome.ran ]

\* `store` is the identity of the dataset object get_dataset returned.
get_mesh_data(cache, data, nOpens, storageOk, req, now) ==
    LET got == get_dataset(cache, data, nOpens, storageOk)
        outcome == mesh_outcome(got.ds, req, now)
    IN  IF got.raised
        THEN [ cache |-> got.cache, opens |-> got.opens, store |-> None,
               resp |-> HTTPException(500, <<"Internal server error", "open failed">>),
               ran |-> <<"load">> ]
        ELSE [ cache |-> got.cache, opens |-> got.opens, store |-> [obj |-> got.ds.obj],
               resp |-> outcome.resp, ran |-> outcome.ran ]

(***************************************************************************)
(* get_dataset_info (currents.py 210-226).                                 *)
(***************************************************************************)
ArrayMin(a) == CHOOSE x \in {a[i] : i \in DOMAIN a} : \A i \in DOMAIN a : x <= a[i]
ArrayMax(a) == CHOOSE x \in {a[i] : i \in DOMAIN a} : \A i \in DOMAIN a : x >= a[i]

get_dataset_info(cache, data, nOpens, storageOk) ==
    LET got == get_dataset(cache, data, nOpens, storageOk)
        d == got.ds.data
    IN  IF got.raised
        THEN [ cache |-> got.cache, opens |-> got.opens, store |-> None,
               resp |-> HTTPException(500, <<"Internal server error", "open failed">>),
               ran |-> <<"load">> ]
        ELSE [ cache |-> got.cache, opens |-> got.opens, store |-> [obj |-> got.ds.obj],
               resp |-> [ status |-> 200,
                          total_nodes |-> Size(d.lat),
                          total_elements |-> Size(d.elements),
                          constituents |-> d.constituent_names,
                          tide_frequencies |-> d.tidefreqs,
                          lat_range |-> <<ArrayMin(d.lat), ArrayMax(d.lat)>>,
                          lon_range |-> <<ArrayMin(d.lon), ArrayMax(d.lon)>>,
                          depth_range |-> <<ArrayMin(d.depth), ArrayMax(d.depth)>> ],
               ran |-> <<"load", "info">> ]

(***************************************************************************)
(* The builder (scripts/convert_to_zarr.py).  The source netCDF dataset    *)
(* holds lat, lon, depth over `node`, ele of shape (3, nele), tidenames    *)
(* (padded byte strings), tidefreqs over `ntides` and u_amp, v_amp,        *)
(* u_phase, v_phase of shape (1, node, ntides), of which the builder takes *)
(* [0, :, :].  A coordinate may be NaN.                                    *)
(***************************************************************************)
NaN == -999                          \* stands for the float nan
CurveOrder == 16                     \* order = 16 in create_spatial_sort_index

MAIN_CONSTITUENTS ==
    [k \in Range0(8) |->
        CASE k = 0 -> "M2" [] k = 1 -> "S2" [] k = 2 -> "N2" [] k = 3 -> "K1"
          [] k = 4 -> "O1" [] k = 5 -> "P1" [] k = 6 -> "M4" [] k = 7 -> "M6"]

RECURSIVE Pow2(_)
Pow2(k) == IF k = 0 THEN 1 ELSE 2 * Pow2(k - 1)

\* tide.decode('utf-8').strip(): a stored name is its text and its padding
parse_tide_names(tidenames_array) ==
    [k \in DOMAIN tidenames_array |-> tidenames_array[k].text]

\* A curve index d has up to 2 * order = 32 bits; it is kept as its upper and
\* lower 16 bits, d = hi * 2^16 + lo.
HalfWord == 65536

\* (d << 2) | digit
shift_in(d, digit) ==
    [hi |-> (4 * d.hi + ((4 * d.lo + digit) \div HalfWord)) % HalfWord,
     lo |-> (4 * d.lo + digit) % HalfWord]

\* (variant of the loop without the rotation of the quadrant: the digits of a
\* Z-order curve)
RECURSIVE hilbert_loop_unrotated(_, _, _, _, _)
hilbert_loop_unrotated(x, y, order, s, d) ==
    IF s < 0 THEN d
    ELSE LET rx == (x \div Pow2(s)) % 2
             ry == (y \div Pow2(s)) % 2
             xor == IF rx = 0 THEN ry ELSE 3 - ry
         IN  hilbert_loop_unrotated(x, y, order, s - 1, shift_in(d, xor))

\* The while loop of hilbert_encode, from bit s down to bit 0.
RECURSIVE hilbert_loop(_, _, _, _, _)
hilbert_loop(x, y, order, s, d) ==
    IF s < 0 THEN d
    ELSE LET rx == (x \div Pow2(s)) % 2
             ry == (y \div Pow2(s)) % 2
             xor == IF rx = 0 THEN ry ELSE 3 - ry          \* (3 * rx) ^ ry
             flip == ry = 0 /\ rx = 1
             x1 == IF flip THEN Pow2(order) - 1 - x ELSE x
             y1 == IF flip THEN Pow2(order) - 1 - y ELSE y
         IN  IF ry = 0
             THEN hilbert_loop(y1, x1, order, s - 1, shift_in(d, xor))
             ELSE hilbert_loop(x, y, order, s - 1, shift_in(d, xor))

hilbert_encode(x, y, order) == hilbert_loop(x, y, order, order - 1, [hi |-> 0, lo |-> 0])

\* key_a <= key_b on curve indices
key_le(a, b) == a.hi < b.hi \/ (a.hi = b.hi /\ a.lo <= b.lo)

\* a.min() / a.max(): nan as soon as one element is nan
np_min(a) == IF \E i \in DOMAIN a : a[i] = NaN THEN NaN ELSE ArrayMin(a)
np_max(a) == IF \E i \in DOMAIN a : a[i] = NaN THEN NaN ELSE ArrayMax(a)

\* np.clip(((a - a.min()) / (a.max() - a.min()) * (n_grid - 1)).astype(uint32), ...).
\* With a nan among the values, or with max = min (0/0), every normalized
\* value is nan and the cast of nan to uint32 is not defined by numpy: the
\* result is `nan_cast`, some value of the grid, the same for every node.
grid_coordinates(a, n_grid, nan_cast) ==
    LET lo == np_min(a)
        hi == np_max(a)
    IN  IF lo = NaN \/ hi = lo
        THEN [i \in DOMAIN a |-> nan_cast]
        ELSE [i \in DOMAIN a |-> ((a[i] - lo) * (n_grid - 1)) \div (hi - lo)]

spatial_keys(lat, lon, nan_cast) ==
    LET n_grid == Pow2(CurveOrder)
        lat_grid == grid_coordinates(lat, n_grid, nan_cast)
        lon_grid == grid_coordinates(lon, n_grid, nan_cast)
    IN  [i \in DOMAIN lat |-> hilbert_encode(lon_grid[i], lat_grid[i], CurveOrder)]

IndexPermutations(n) ==
    {p \in [Range0(n) -> Range0(n)] : \A a, b \in Range0(n) : a # b => p[a] # p[b]}

\* np.argsort(keys) with the default kind (quicksort, not a stable sort): an
\* index array that puts the keys in non-decreasing order; the order among
\* equal keys is left to the sort.
np_argsort(keys) ==
    {p \in IndexPermutations(Size(keys)) :
        \A a, b \in DOMAIN keys : a < b => key_le(keys[p[a]], keys[p[b]])}

\* The index arrays create_spatial_sort_index can return.
create_spatial_sort_index(lat, lon, nan_cast) == np_argsort(spatial_keys(lat, lon, nan_cast))

\* inverse_mapping[elements_nc]: numpy takes an index k in [-n, n), a negative
\* one counting from the end, and raises IndexError for any other.
np_take(a, k) == a[IF k < 0 THEN k + Size(a) ELSE k]

\* (variant of remap_elements that indexes the sort index itself)
remap_elements_forward(elements_nc, spatial_sort_idx) ==
    LET n == Size(spatial_sort_idx)
    IN  IF \E e \in DOMAIN elements_nc : \E j \in Range0(3) : elements_nc[e][j] \notin (-n)..(n - 1)
        THEN [raised |-> TRUE, elements_sorted |-> None]
        ELSE IF Size(elements_nc) = 0
        THEN [raised |-> TRUE, elements_sorted |-> None]
        ELSE [raised |-> FALSE,
              elements_sorted |-> [e \in DOMAIN elements_nc |->
                                     [j \in Range0(3) |-> np_take(spatial_sort_idx, elements_nc[e][j])]]]

\* remap_elements (194-221).  It raises when the fancy indexing does
\* (IndexError), when min() is taken of an empty result (ValueError), or when
\* the validation of line 216 fails.
remap_elements(elements_nc, spatial_sort_idx) ==
    LET n == Size(spatial_sort_idx)
        inverse_mapping == [orig_idx \in Range0(n) |->
                              CHOOSE new_idx \in Range0(n) : spatial_sort_idx[new_idx] = orig_idx]
        elements_sorted == [e \in DOMAIN elements_nc |->
                              [j \in Range0(3) |-> np_take(inverse_mapping, elements_nc[e][j])]]
    IN  IF \E e \in DOMAIN elements_nc : \E j \in Range0(3) : elements_nc[e][j] \notin (-n)..(n - 1)
        THEN [raised |-> TRUE, elements_sorted |-> None]
        ELSE IF Size(elements_nc) = 0
        THEN [raised |-> TRUE, elements_sorted |-> None]
        ELSE IF \E e \in DOMAIN elements_nc : \E j \in Range0(3) :
                    elements_sorted[e][j] < 0 \/ elements_sorted[e][j] >= n
        THEN [raised |-> TRUE, elements_sorted |-> None]
        ELSE [raised |-> FALSE, elements_sorted |-> elements_sorted]

\* (variant that leaves the rows where they are)
np_index_in_place(a, idx) == [j \in DOMAIN idx |-> a[j]]

\* a[idx] / a[idx, :] for an integer index array idx
np_index(a, idx) == [j \in DOMAIN idx |-> a[idx[j]]]

\* a[:, idx]
np_columns(a, idx) == [i \in DOMAIN a |-> [j \in DOMAIN idx |-> a[i][idx[j]]]]

\* The loop of lines 248-256: the positions in tidenames of the main
\* constituents that occur there (list.index: the first occurrence), in the
\* order of MAIN_CONSTITUENTS; a constituent that does not occur is skipped
\* with a printed warning.
found_mask(tidenames) ==
    [k \in DOMAIN MAIN_CONSTITUENTS |->
        \E t \in DOMAIN tidenames : tidenames[t] = MAIN_CONSTITUENTS[k]]

found_constituents(tidenames) == np_compress(MAIN_CONSTITUENTS, found_mask(tidenames))

\* (variant that takes the position in MAIN_CONSTITUENTS for the position in
\* tidenames)
constituent_indices_main_order(tidenames) ==
    LET found == found_constituents(tidenames)
    IN  [j \in DOMAIN found |->
            CHOOSE k \in DOMAIN MAIN_CONSTITUENTS : MAIN_CONSTITUENTS[k] = found[j]]

constituent_indices(tidenames) ==
    LET found == found_constituents(tidenames)
    IN  [j \in DOMAIN found |->
            CHOOSE t \in DOMAIN tidenames :
                /\ tidenames[t] = found[j]
                /\ \A t2 \in DOMAIN tidenames : tidenames[t2] = found[j] => t <= t2]

\* The variables of ds_zarr in the order the Dataset holds them.
StoreVariables ==
    <<"lat", "lon", "depth", "u_amp", "v_amp", "u_phase", "v_phase", "elements",
      "tidefreqs", "constituent_names", "original_node_index">>

\* convert_to_zarr up to the write (228-411): ds_zarr as built in memory from
\* the source `ds` with the sort index `spatial_sort_idx`, or `raised`.
build_dataset(ds, spatial_sort_idx) ==
    LET tidenames == parse_tide_names(ds.tidenames)
        idx == constituent_indices(tidenames)
        elements_nc == [e \in DOMAIN ds.ele[0] |-> [j \in Range0(3) |-> ds.ele[j][e] - 1]]
        remapped == remap_elements(elements_nc, spatial_sort_idx)
    IN  IF remapped.raised
        THEN [raised |-> TRUE, ds_zarr |-> None]
        ELSE IF Size(idx) = 0      \* a[:, np.array([])]: a float index array
        THEN [raised |-> TRUE, ds_zarr |-> None]
        ELSE [raised |-> FALSE,
              ds_zarr |->
                [ lat |-> np_index(ds.lat, spatial_sort_idx),
                  lon |-> np_index(ds.lon, spatial_sort_idx),
                  depth |-> np_index(ds.depth, spatial_sort_idx),
                  u_amp |-> np_columns(np_index(ds.u_amp, spatial_sort_idx), idx),
                  v_amp |-> np_columns(np_index(ds.v_amp, spatial_sort_idx), idx),
                  u_phase |-> np_columns(np_index(ds.u_phase, spatial_sort_idx), idx),
                  v_phase |-> np_columns(np_index(ds.v_phase, spatial_sort_idx), idx),
                  elements |-> remapped.elements_sorted,
                  tidefreqs |-> np_index(ds.tidefreqs, idx),
                  constituent_names |-> found_constituents(tidenames),
                  original_node_index |-> spatial_sort_idx ]]

(***************************************************************************)
(* The process.  The application object is built without opening the store *)
(* (main.py 11-32 registers the router and nothing else), so the process   *)
(* starts serving with _ds_cache = None.                                   *)
(***************************************************************************)
DefaultSettings ==
    [ DATA_SOURCE |-> "S3", MAX_NODES_PER_REQUEST |-> DEFAULT_MAX_NODES_PER_REQUEST,
      LATITUDE_FOR_NODAL |-> 55 ]

\* Settings reads the environment: any field may be overridden there.
SettingsChoices ==
    { DefaultSettings,
      [DefaultSettings EXCEPT !.DATA_SOURCE = "LOCAL", !.MAX_NODES_PER_REQUEST = 2] }

ServedMeshes == {ScenarioMesh, ShiftedMesh}

Init ==
    /\ zarr \in ServedMeshes
    /\ settings \in SettingsChoices
    /\ _ds_cache = None
    /\ opens = 0
    /\ handled = 0
    /\ last = None
    /\ before = None
    /\ build = None

\* One GET /mesh, handled to completion.
MeshRequest(req, now, storageOk) ==
    /\ handled < MaxRequests
    /\ \E r \in {get_mesh_data(_ds_cache, zarr, opens, storageOk, req, now)} :
        /\ _ds_cache' = r.cache
        /\ opens' = r.opens
        /\ handled' = handled + 1
        /\ last' = [endpoint |-> "mesh", req |-> req, now |-> now,
                    store |-> r.store, resp |-> r.resp, ran |-> r.ran]
    /\ UNCHANGED <<zarr, settings>>

\* One GET /info, handled to completion.
InfoRequest(storageOk) ==
    /\ handled < MaxRequests
    /\ \E r \in {get_dataset_info(_ds_cache, zarr, opens, storageOk)} :
        /\ _ds_cache' = r.cache
        /\ opens' = r.opens
        /\ handled' = handled + 1
        /\ last' = [endpoint |-> "info", req |-> None, now |-> None,
                    store |-> r.store, resp |-> r.resp, ran |-> r.ran]
    /\ UNCHANGED <<zarr, settings>>

\* The clock is read only when the time parameter is absent, and the storage
\* is touched only when nothing is cached.
ClockReads(req) == IF req.time.kind \in {"none", "empty"} THEN Instants ELSE {None}
OpenOutcomes == IF _ds_cache = None THEN BOOLEAN ELSE {TRUE}

Mesh == \E req \in MeshRequests : \E now \in ClockReads(req), storageOk \in OpenOutcomes :
            MeshRequest(req, now, storageOk) /\ UNCHANGED <<before, build>>

Info == \E storageOk \in OpenOutcomes : InfoRequest(storageOk) /\ UNCHANGED <<before, build>>

Next == Mesh \/ Info

Spec == Init /\ [][Next]_vars

(***************************************************************************)
(* The query engine over every generated mesh: a fresh process serving one *)
(* of them answers one /mesh request.                                      *)
(***************************************************************************)
InitQuery ==
    /\ zarr \in Meshes
    /\ settings = DefaultSettings
    /\ _ds_cache = None
    /\ opens = 0
    /\ handled = 0
    /\ last = None
    /\ before = None
    /\ build = None

QueryRequests == {req \in MeshRequests : req.time.kind \in {"none", "bad"}}

FirstMesh ==
    /\ handled = 0
    /\ \E req \in QueryRequests : \E now \in ClockReads(req) :
            MeshRequest(req, now, TRUE) /\ UNCHANGED <<before, build>>

SpecQuery == InitQuery /\ [][FirstMesh]_vars

(***************************************************************************)
(* The builder run.  `build` is the position of the run with the source it *)
(* read and the dataset it holds in memory; `zarr` is what the output      *)
(* location ZARR_OUTPUT holds: None when nothing is there, else the        *)
(* variables written so far, with ".zmetadata" once the consolidated       *)
(* metadata is written.  The computation in memory is one step; the write  *)
(* goes variable by variable and may be cut short by an I/O error.         *)
(***************************************************************************)
MaxSourceNodes == 3  \* nodes of a source mesh

\* The source arrays that go with the given coordinates, connectivity and
\* tide names.
SourceDataset(lat, lon, ele, tidenames) ==
    [ lat |-> lat, lon |-> lon,
      depth |-> [i \in DOMAIN lat |-> 20 + i],
      ele |-> ele,
      tidenames |-> tidenames,
      tidefreqs |-> [t \in DOMAIN tidenames |-> t + 1],
      u_amp |-> [i \in DOMAIN lat |-> [t \in DOMAIN tidenames |-> 10 * i + t]],
      v_amp |-> [i \in DOMAIN lat |-> [t \in DOMAIN tidenames |-> 100 + 10 * i + t]],
      u_phase |-> [i \in DOMAIN lat |-> [t \in DOMAIN tidenames |-> 90 * ((i + t) % 4)]],
      v_phase |-> [i \in DOMAIN lat |-> [t \in DOMAIN tidenames |-> 90 * ((i + 2 * t + 1) % 4)]] ]

\* tidenames of a source: every main constituent and one more, in an order
\* of their own; and the same without N2.
SourceTideNames ==
    LET text(l) == [t \in Range0(Len(l)) |-> [text |-> l[t + 1], pad |-> 8]]
    IN  { text(<<"Q1", "S2", "M2", "N2", "K1", "O1", "P1", "M4", "M6">>),
          text(<<"Q1", "S2", "M2", "K1", "O1", "P1", "M4", "M6">>) }

\* Coordinate arrays: finite values, or a nan at node 0.
SourceCoordinates(n) ==
    [Range0(n) -> Coords] \cup {[a EXCEPT ![0] = NaN] : a \in [Range0(n) -> Coords]}

\* ele of shape (3, nele) with nele <= 1: no triangle, or one whose vertices
\* are any ascending triple of 0..n+1 (an index of 0 or of n+1 included).
SourceConnectivity(n) ==
    { [j \in Range0(3) |-> <<>>] }
    \cup { [j \in Range0(3) |-> [e \in Range0(1) |-> t[j]]] :
               t \in {t \in [Range0(3) -> 0..(n + 1)] : t[0] < t[1] /\ t[1] < t[2]} }

BuildSources ==
    UNION { { SourceDataset(lat, lon, ele, names) :
                lat \in SourceCoordinates(n), lon \in [Range0(n) -> Coords],
                ele \in SourceConnectivity(n), names \in SourceTideNames }
            : n \in 1..MaxSourceNodes }

\* What to_zarr writes, in order: the variables, then the consolidated metadata.
WriteOrder == StoreVariables \o <<".zmetadata">>

\* The output location after the first k items of ds_zarr are written.
store_written(ds_zarr, k) ==
    [v \in {WriteOrder[i] : i \in 1..k} |->
        IF v = ".zmetadata" THEN TRUE ELSE ds_zarr[v]]

\* A store left at the output location by an earlier, complete run.
OldStore ==
    LET ds == SourceDataset([i \in Range0(3) |-> i % 2], [i \in Range0(3) |-> i \div 2],
                            [j \in Range0(3) |-> [e \in Range0(1) |-> j + 1]],
                            CHOOSE names \in SourceTideNames : Size(names) = 9)
        idx == CHOOSE p \in create_spatial_sort_index(ds.lat, ds.lon, 0) : TRUE
    IN  store_written(build_dataset(ds, idx).ds_zarr, Len(WriteOrder))

InitBuild ==
    /\ zarr \in {None, OldStore}
    /\ settings = DefaultSettings
    /\ _ds_cache = None
    /\ opens = 0
    /\ handled = 0
    /\ last = None
    /\ before = None
    /\ build = [pc |-> "start", source |-> None, ds_zarr |-> None, written |-> 0]

\* convert_to_zarr lines 228-411: read the source and build ds_zarr in memory.
BuildPrepare ==
    /\ build.pc = "start"
    /\ \E ds \in BuildSources : \E nan_cast \in {0, Pow2(CurveOrder) - 1} :
       \E spatial_sort_idx \in create_spatial_sort_index(ds.lat, ds.lon, nan_cast) :
       \E b \in {build_dataset(ds, spatial_sort_idx)} :
          build' = [pc |-> IF b.raised THEN "failed" ELSE "remove",
                    source |-> ds, ds_zarr |-> b.ds_zarr, written |-> 0]
    /\ UNCHANGED <<zarr, settings, _ds_cache, opens, handled, last, before>>

\* lines 416-419: shutil.rmtree(ZARR_OUTPUT) when it exists
BuildRemove ==
    /\ build.pc = "remove"
    /\ zarr' = None
    /\ build' = [build EXCEPT !.pc = "write"]
    /\ UNCHANGED <<settings, _ds_cache, opens, handled, last, before>>

\* lines 423-428: to_zarr writes the next item at the output location
BuildWrite ==
    /\ build.pc = "write"
    /\ zarr' = store_written(build.ds_zarr, build.written + 1)
    /\ build' = [build EXCEPT !.written = build.written + 1,
                              !.pc = IF build.written + 1 = Len(WriteOrder)
                                     THEN "done" ELSE "write"]
    /\ UNCHANGED <<settings, _ds_cache, opens, handled, last, before>>

\* to_zarr raises (disk full, permission, interrupt): the run ends there
BuildWriteFails ==
    /\ build.pc = "write"
    /\ build' = [build EXCEPT !.pc = "failed"]
    /\ UNCHANGED <<zarr, settings, _ds_cache, opens, handled, last, before>>

SpecBuild == InitBuild /\ [][BuildPrepare \/ BuildRemove \/ BuildWrite \/ BuildWriteFails]_vars

(***************************************************************************)
(* Queries over the whole mesh: a fresh process serving a generated mesh   *)
(* answers one /mesh request whose box covers the lat/lon extent of the    *)
(* store.  The count checks of the handler (currents.py 75-82) are also    *)
(* applied on their own to match counts around the ceiling, which no       *)
(* enumerated mesh reaches: a box covering the extent of a store of N      *)
(* nodes matches N nodes.                                                  *)
(***************************************************************************)
CoversExtent(req) ==
    /\ req.min_lat <= ArrayMin(zarr.lat) /\ ArrayMax(zarr.lat) <= req.max_lat
    /\ req.min_lon <= ArrayMin(zarr.lon) /\ ArrayMax(zarr.lon) <= req.max_lon

ExtentRequests == {req \in MeshRequests : req.time.kind # "bad" /\ CoversExtent(req)}

ExtentMesh ==
    /\ handled = 0
    /\ \E req \in ExtentRequests : \E now \in ClockReads(req) :
            MeshRequest(req, now, TRUE)
    /\ UNCHANGED <<before, build>>

MatchCounts ==
    {0, 1, 2, NodeCeiling - 1, NodeCeiling, NodeCeiling + 1, NodeCeiling + 2, 4 * NodeCeiling}

\* The count checks alone, on the match count num_nodes.
CountCheck ==
    /\ handled = 0
    /\ \E num_nodes \in MatchCounts :
          last' = [endpoint |-> "count_check", num_nodes |-> num_nodes,
                   check |-> count_check(num_nodes)]
    /\ handled' = handled + 1
    /\ UNCHANGED <<zarr, settings, _ds_cache, opens, before, build>>

SpecExtent == InitQuery /\ [][ExtentMesh \/ CountCheck]_vars

(***************************************************************************)
(* The order of the checks: a fresh process answers one /mesh request on a *)
(* generated mesh; and the checks are applied on their own to match counts *)
(* around the ceiling together with every form of the time parameter.      *)
(***************************************************************************)
RequestChecks ==
    /\ handled = 0
    /\ \E num_nodes \in MatchCounts, time \in TimeParams :
          last' = [endpoint |-> "request_checks", num_nodes |-> num_nodes, time |-> time,
                   outcome |-> request_checks(num_nodes, time)]
    /\ handled' = handled + 1
    /\ UNCHANGED <<zarr, settings, _ds_cache, opens, before, build>>

SpecOrder == InitQuery /\ [][FirstMesh \/ RequestChecks]_vars

(***************************************************************************)
(* The synthesis on its own: predict_currents and _get_ttide_indices       *)
(* applied to inputs of every shape, outside any request.                  *)
(***************************************************************************)
MaxSynthNodes == 2   \* nodes of a synthesis input
MaxNames == 3        \* names of a constituent list

\* Constituent names: some of the standard mapping, some outside it.
Names == {"M2", "S2", "M6", "Q1", "XX"}

NameLists(maxLen) == UNION {[Range0(c) -> Names] : c \in 0..maxLen}

PhaseArrays(n, c) == [Range0(n) -> [Range0(c) -> {0, 90, 180, 270}]]

Predict ==
    /\ handled = 0
    /\ \E names \in NameLists(2), n \in 1..MaxSynthNodes :
       \E u_phase \in PhaseArrays(n, Size(names)), t \in Instants, aware \in BOOLEAN :
          LET u_amp == [i \in Range0(n) |-> [c \in DOMAIN names |-> 1 + ((i + c) % 2)]]
              v_amp == [i \in Range0(n) |-> [c \in DOMAIN names |-> 2 + (i % 2)]]
              v_phase == [i \in Range0(n) |-> [c \in DOMAIN names |->
                                                 (u_phase[i][c] + 90 * (c + 1)) % 360]]
              tidefreqs == [c \in DOMAIN names |-> c + 1]
              time_utc == [t |-> t, aware |-> aware]
          IN  last' = [endpoint |-> "predict",
                       u_amp |-> u_amp, v_amp |-> v_amp,
                       u_phase |-> u_phase, v_phase |-> v_phase,
                       tidefreqs |-> tidefreqs, constituent_names |-> names,
                       time_utc |-> time_utc,
                       out |-> predict_currents(u_amp, v_amp, u_phase, v_phase, tidefreqs,
                                                names, time_utc, settings.LATITUDE_FOR_NODAL)]
    /\ handled' = handled + 1
    /\ UNCHANGED <<zarr, settings, _ds_cache, opens, before, build>>

TtideIndices ==
    /\ handled = 0
    /\ \E names \in NameLists(MaxNames) :
          last' = [endpoint |-> "ttide_indices", constituent_names |-> names,
                   indices |-> _get_ttide_indices(names),
                   warnings |-> _get_ttide_warnings(names)]
    /\ handled' = handled + 1
    /\ UNCHANGED <<zarr, settings, _ds_cache, opens, before, build>>

InitSynthesis == Init /\ zarr = ScenarioMesh /\ settings = DefaultSettings

SpecSynthesis == InitSynthesis /\ [][Predict \/ TtideIndices]_vars

(***************************************************************************)
(* Two requests in a row to one process, the outcome of the first kept in  *)
(* `before` for comparison with the outcome of the second.                 *)
(***************************************************************************)
MaxRepeat == 2       \* requests of a comparison run

InitRepeat == Init /\ settings = DefaultSettings

RepeatMesh ==
    /\ handled < MaxRepeat
    /\ \E req \in MeshRequests : \E now \in ClockReads(req), storageOk \in OpenOutcomes :
            MeshRequest(req, now, storageOk)
    /\ before' = last
    /\ UNCHANGED build

RepeatInfo ==
    /\ handled < MaxRepeat
    /\ \E storageOk \in OpenOutcomes : InfoRequest(storageOk)
    /\ before' = last
    /\ UNCHANGED build

SpecRepeat == InitRepeat /\ [][RepeatMesh \/ RepeatInfo]_vars

(***************************************************************************)
(* The curve on its own: hilbert_encode applied to a cell of the grid of   *)
(* an order k.                                                             *)
(***************************************************************************)
MaxOrder == 4        \* curve orders 1..MaxOrder

InitCurve == Init /\ zarr = ScenarioMesh /\ settings = DefaultSettings

Encode ==
    /\ \E order \in 1..MaxOrder : \E x, y \in Range0(Pow2(order)) :
          last' = [endpoint |-> "hilbert_encode", x |-> x, y |-> y, order |-> order,
                   d |-> hilbert_encode(x, y, order)]
    /\ UNCHANGED <<zarr, settings, _ds_cache, opens, handled, before, build>>

SpecCurve == InitCurve /\ [][Encode]_vars

(***************************************************************************)
(* Vocabulary of the properties.                                           *)
(***************************************************************************)
MeshHandled == last # None /\ last.endpoint = "mesh"
MeshSelected == MeshHandled /\ last.store # None        \* get_dataset returned
MeshOk == MeshHandled /\ last.resp.status = 200

\* The box test of the specification, on one store node.
InBox(i, req) ==
    /\ req.min_lat <= zarr.lat[i] /\ zarr.lat[i] <= req.max_lat
    /\ req.min_lon <= zarr.lon[i] /\ zarr.lon[i] <= req.max_lon

NodesInBox(req) == {i \in DOMAIN zarr.lat : InBox(i, req)}

\* The instant a handled /mesh request is predicted for.
InstantOf(l) == IF l.req.time.kind = "iso" THEN l.req.time.t ELSE l.now

\* Position c of the returned node arrays holds store node i.
HoldsNode(resp, c, i) ==
    LET vel == predict_currents(zarr.u_amp, zarr.v_amp, zarr.u_phase, zarr.v_phase,
                                zarr.tidefreqs, zarr.constituent_names,
                                resp.time, settings.LATITUDE_FOR_NODAL)
    IN  /\ resp.nodes.lat[c] = zarr.lat[i]
        /\ resp.nodes.lon[c] = zarr.lon[i]
        /\ resp.nodes.depth[c] = zarr.depth[i]
        /\ resp.nodes.u_velocity[c] = vel.u[i]
        /\ resp.nodes.v_velocity[c] = vel.v[i]

(***************************************************************************)
(* C1.  The /mesh query selects a node if and only if it lies in the       *)
(* closed box: every returned node satisfies min <= lat <= max and         *)
(* min <= lon <= max, every store node in the box is returned (as many     *)
(* nodes are returned as lie in the box, each of them present), and the    *)
(* query finds no node exactly when no store node lies in the box.         *)
(***************************************************************************)
C1_BoxSelection ==
    MeshSelected =>
        /\ MeshOk =>
            /\ \A c \in DOMAIN last.resp.nodes.lat :
                /\ last.req.min_lat <= last.resp.nodes.lat[c]
                /\ last.resp.nodes.lat[c] <= last.req.max_lat
                /\ last.req.min_lon <= last.resp.nodes.lon[c]
                /\ last.resp.nodes.lon[c] <= last.req.max_lon
            /\ last.resp.nodes.count = Cardinality(NodesInBox(last.req))
            /\ DOMAIN last.resp.nodes.lat = Range0(last.resp.nodes.count)
            /\ \A i \in NodesInBox(last.req) :
                \E c \in DOMAIN last.resp.nodes.lat : HoldsNode(last.resp, c, i)
        /\ (last.resp.status = 404) <=> (NodesInBox(last.req) = {})

\* A successful query with a degenerate box (min = max on both axes): the
\* nodes on the boundary are returned and another node is left out.
C1_Witness ==
    /\ MeshOk
    /\ last.req.min_lat = last.req.max_lat /\ last.req.min_lon = last.req.max_lon
    /\ last.resp.nodes.count >= 2
    /\ \E i \in DOMAIN zarr.lat : ~InBox(i, last.req)

(***************************************************************************)
(* C2 (as amended).  Every returned triangle has its three vertex indices  *)
(* in [0, k), k the returned node count, and comes from a store triangle   *)
(* whose three vertices all lie in the box, the node at each returned      *)
(* index (lat, lon, depth, u_velocity, v_velocity) being the store node    *)
(* that vertex named.  In the 4-node scenario every box that covers nodes  *)
(* 0, 1, 2 covers node 3 as well, and the result is 4 nodes and the single *)
(* triangle (0,1,2); with the fourth node at (2,2) instead, a box covering *)
(* only nodes 0, 1, 2 yields 3 nodes and the single triangle (0,1,2).      *)
(***************************************************************************)
Triangle012 == [e \in Range0(1) |-> [j \in Range0(3) |-> j]]

TrianglesValid ==
    \A r \in DOMAIN last.resp.elements.triangles :
        /\ \A j \in Range0(3) :
              last.resp.elements.triangles[r][j] \in Range0(last.resp.nodes.count)
        /\ \E e \in DOMAIN zarr.elements :
              \A j \in Range0(3) :
                 /\ InBox(zarr.elements[e][j], last.req)
                 /\ HoldsNode(last.resp, last.resp.elements.triangles[r][j],
                              zarr.elements[e][j])

MatchingElements(req) ==
    {e \in DOMAIN zarr.elements :
        \A j \in Range0(3) : zarr.elements[e][j] \in NodesInBox(req)}

C3_TriangleSelection ==
    MeshOk =>
        /\ last.resp.elements.count = Cardinality(MatchingElements(last.req))
        /\ DOMAIN last.resp.elements.triangles = Range0(last.resp.elements.count)
        /\ \E f \in [DOMAIN last.resp.elements.triangles -> MatchingElements(last.req)] :
              /\ \A r1, r2 \in DOMAIN f : r1 # r2 => f[r1] # f[r2]
              /\ \A r \in DOMAIN f : \A j \in Range0(3) :
                    /\ last.resp.elements.triangles[r][j] \in Range0(last.resp.nodes.count)
                    /\ last.resp.nodes.depth[last.resp.elements.triangles[r][j]]
                          = zarr.depth[zarr.elements[f[r]][j]]

\* A store triangle with two vertices selected and one outside the box is dropped.
C3_Witness ==
    /\ MeshOk
    /\ last.resp.elements.count = 0
    /\ \E e \in DOMAIN zarr.elements :
          Cardinality({j \in Range0(3) : zarr.elements[e][j] \in NodesInBox(last.req)}) = 2

(***************************************************************************)
(* C4.  When k >= 1 nodes are selected, node_idx_mapping is defined on     *)
(* exactly the selected store indices, is injective, has image [0, k) and  *)
(* preserves order; the returned node arrays follow it.                    *)
(***************************************************************************)
C4_Compaction ==
    (MeshSelected /\ NodesInBox(last.req) # {}) =>
        LET m == node_idx_mapping(node_indices(_ds_cache.data, last.req))
            k == Cardinality(NodesInBox(last.req))
        IN  /\ DOMAIN m = NodesInBox(last.req)
            /\ \A a, b \in DOMAIN m : a # b => m[a] # m[b]
            /\ {m[a] : a \in DOMAIN m} = Range0(k)
            /\ \A a, b \in DOMAIN m : a < b => m[a] < m[b]
            /\ MeshOk => \A a \in DOMAIN m : last.resp.nodes.depth[m[a]] = zarr.depth[a]

\* Two or more nodes selected, after a lower-numbered node that was left out.
C4_Witness ==
    /\ MeshOk
    /\ last.resp.nodes.count >= 2
    /\ \E i \in DOMAIN zarr.lat : \E a \in NodesInBox(last.req) :
          i < a /\ i \notin NodesInBox(last.req)

(***************************************************************************)
(* C5.  A /mesh query whose box holds no store node fails with the 404     *)
(* outcome, returns no sub-mesh, and stops right after node selection:     *)
(* neither triangle filtering nor synthesis runs.                          *)
(***************************************************************************)
C5_EmptyResult ==
    (MeshSelected /\ NodesInBox(last.req) = {}) =>
        /\ last.resp = HTTPException(404, <<"No nodes found in bounding box">>)
        /\ last.ran = <<"load", "select">>

\* A loaded, non-empty store queried with a box that misses every node.
C5_Witness ==
    /\ MeshSelected
    /\ last.resp.status = 404
    /\ Size(zarr.lat) >= 2

(***************************************************************************)
(* C6.  A /mesh query fails with ResultTooLarge, carrying the match count, *)
(* if and only if the match count exceeds the configured ceiling           *)
(* settings.MAX_NODES_PER_REQUEST.                                         *)
(***************************************************************************)
C6_ConfiguredCeiling ==
    MeshSelected =>
        LET n == Cardinality(NodesInBox(last.req))
        IN  (last.resp.status = 400 /\ last.resp.detail = <<"Too many nodes", n>>)
                <=> (n > settings.MAX_NODES_PER_REQUEST)

C9_NoPartialStore ==
    /\ _ds_cache # None => (_ds_cache.data = zarr /\ _ds_cache.obj \in 1..opens)
    /\ (last # None /\ _ds_cache = None) => (last.resp.status = 500 /\ opens = handled)
    /\ (last # None /\ last.endpoint = "info" /\ last.resp.status = 200) =>
          /\ last.resp.total_nodes = Size(zarr.lat)
          /\ last.resp.total_elements = Size(zarr.elements)

\* A load failed, a later load succeeded, and /info then reads the store.
C9_Witness ==
    /\ opens = 2 /\ handled = 3
    /\ _ds_cache # None
    /\ last.endpoint = "info" /\ last.resp.status = 200

(***************************************************************************)
(* C10.  Handling a request never changes the loaded store: the cached     *)
(* dataset is the same object with the same arrays after any request,      *)
(* whatever its outcome and whatever was handled before it, and every      *)
(* /mesh request that got a dataset is answered as a fresh process with    *)
(* the same store would answer it alone.                                   *)
(***************************************************************************)
C10_QueriesArePure ==
    [][ handled' > handled =>
          /\ _ds_cache # None => _ds_cache' = _ds_cache
          /\ _ds_cache' # None => _ds_cache'.data = zarr
          /\ (last'.endpoint = "mesh" /\ last'.store # None) =>
                last'.resp = get_mesh_data(None, zarr, 0, TRUE, last'.req, last'.now).resp
      ]_vars

\* The third request on one loaded store: a successful query that returns a
\* remapped triangle, after two other requests were handled.
C10_Witness ==
    /\ handled = 3 /\ opens = 1
    /\ MeshOk
    /\ last.resp.elements.count = 1
    /\ last.resp.elements.triangles[0] # zarr.elements[0]

(***************************************************************************)
(* C11.  A /mesh request whose time parameter cannot be parsed is rejected *)
(* with the HTTP 400 of the invalid time, and nothing of the handler body  *)
(* beyond the load has run for it: no node selection, no triangle          *)
(* filtering, no synthesis.                                                *)
(***************************************************************************)
C11_RejectBeforeCompute ==
    (MeshSelected /\ last.req.time.kind = "bad") =>
        /\ last.resp = HTTPException(400, <<"Invalid time format", last.req.time>>)
        /\ last.ran = <<"load">>

(***************************************************************************)
(* C12.  Two /mesh queries on the same mesh with the same box and the same *)
(* instant (however the instant was given: by the clock, as a naive        *)
(* string, with Z) return the same node arrays in the same order, the same *)
(* triangles in the same order and the same velocities, whatever the       *)
(* process handled before and whether the store was loaded for the first.  *)
(***************************************************************************)
SameBox(a, b) ==
    /\ a.min_lat = b.min_lat /\ a.max_lat = b.max_lat
    /\ a.min_lon = b.min_lon /\ a.max_lon = b.max_lon

\* `before` and `last` are /mesh requests that reached the handler body with
\* the same box and instant.
SameQueryTwice ==
    /\ before # None /\ before.endpoint = "mesh" /\ before.store # None
    /\ MeshSelected
    /\ SameBox(before.req, last.req)
    /\ before.req.time.kind # "bad" /\ last.req.time.kind # "bad"
    /\ InstantOf(before) = InstantOf(last)

C12_Determinism ==
    SameQueryTwice =>
        /\ last.resp.status = before.resp.status
        /\ last.resp.status = 200 =>
              /\ last.resp.nodes = before.resp.nodes
              /\ last.resp.elements = before.resp.elements

\* The same box and instant asked twice, first by the clock and then with an
\* explicit time, both answered with two or more nodes and a triangle.
C12_Witness ==
    /\ SameQueryTwice
    /\ before.req.time.kind = "none" /\ last.req.time.kind = "iso"
    /\ last.resp.status = 200
    /\ last.resp.nodes.count >= 3
    /\ last.resp.elements.count = 1

(***************************************************************************)
(* C13 (as amended).  A /mesh query whose box covers the full lat/lon      *)
(* extent of a store of at most 500,000 nodes returns a node count equal   *)
(* to the store's total node count and a triangle count equal to the       *)
(* store's total triangle count, the totals /info reports.  For a store of *)
(* more than 500,000 nodes the match count of that query, which is the     *)
(* node total, fails the ceiling check and the query returns no counts.    *)
(***************************************************************************)
CountChecked == last # None /\ last.endpoint = "count_check"

C13_RoundTrip ==
    /\ (MeshSelected /\ CoversExtent(last.req)) =>
          LET info == get_dataset_info(None, zarr, 0, TRUE).resp
          IN  /\ last.resp.status = 200
              /\ last.resp.nodes.count = Size(zarr.lat)
              /\ last.resp.elements.count = Size(zarr.elements)
              /\ last.resp.nodes.count = info.total_nodes
              /\ last.resp.elements.count = info.total_elements
    /\ (CountChecked /\ last.num_nodes >= 1) =>
          (last.check = "ok" <=> last.num_nodes <= NodeCeiling)

\* A mesh of four nodes spread over both axes, with a triangle, queried over
\* its whole extent.
C13_Witness ==
    /\ MeshOk /\ CoversExtent(last.req)
    /\ Size(zarr.lat) = 4 /\ Size(zarr.elements) = 1
    /\ ArrayMin(zarr.lat) < ArrayMax(zarr.lat)
    /\ ArrayMin(zarr.lon) < ArrayMax(zarr.lon)
    /\ last.resp.nodes.count = 4 /\ last.resp.elements.count = 1

\* C13 as stated: the full-extent query returns the totals whatever the size
\* of the store, so the match count of a full-extent query always passes.
C13_Original ==
    /\ (MeshSelected /\ CoversExtent(last.req)) =>
          /\ last.resp.status = 200
          /\ last.resp.nodes.count = Size(zarr.lat)
          /\ last.resp.elements.count = Size(zarr.elements)
    /\ (CountChecked /\ last.num_nodes >= 1) => last.check = "ok"

(***************************************************************************)
(* C14.  predict_currents returns, for every node n, u_velocity[n] = the   *)
(* sum over the constituents i, in list order, of                          *)
(* f_i * u_amp[n,i] * cos(v_i + omega_i * t + u_i - radians(u_phase[n,i])) *)
(* and the same for v with v_amp and v_phase, t the seconds from           *)
(* 2000-01-01T00:00:00Z to the instant and (v, u, f) the nodal corrections *)
(* of the provider; a single constituent M2 with amplitude 1, phase 0 and  *)
(* corrections (0, 0, 1) at the reference epoch gives u_velocity = 1.      *)
(***************************************************************************)
Predicted == last # None /\ last.endpoint = "predict"

\* The sum of the claim for node n, written out for lists of 0, 1 and 2 names.
HarmonicSum(l, amp, phase, n) ==
    LET nodal == t_vuf(l.time_utc.t, _get_ttide_indices(l.constituent_names),
                       settings.LATITUDE_FOR_NODAL)
        t == l.time_utc.t - REFERENCE_TIME
        angle(i) == nodal.v[i] + l.tidefreqs[i] * t + nodal.u[i] - (phase[n][i] \div 90)
        term(i) == nodal.f[i] * amp[n][i] * cos(angle(i))
        c == Size(l.constituent_names)
    IN  IF c = 0 THEN 0 ELSE IF c = 1 THEN term(0) ELSE term(0) + term(1)

SingleM2AtEpoch(l) ==
    /\ l.constituent_names = [i \in Range0(1) |-> "M2"]
    /\ l.u_amp[0][0] = 1 /\ l.u_phase[0][0] = 0
    /\ l.time_utc.t = REFERENCE_TIME
    /\ t_vuf(REFERENCE_TIME, _get_ttide_indices(l.constituent_names),
             settings.LATITUDE_FOR_NODAL)
          = [v |-> [i \in Range0(1) |-> 0], u |-> [i \in Range0(1) |-> 0],
             f |-> [i \in Range0(1) |-> 1]]

C14_SynthesisFormula ==
    Predicted =>
        /\ ~last.out.raised
        /\ \A n \in DOMAIN last.u_amp :
              /\ last.out.u[n] = HarmonicSum(last, last.u_amp, last.u_phase, n)
              /\ last.out.v[n] = HarmonicSum(last, last.v_amp, last.v_phase, n)
        /\ SingleM2AtEpoch(last) => last.out.u[0] = 1

(***************************************************************************)
(* C15.  _get_ttide_indices returns one index per name, in input order: a  *)
(* name of the standard mapping gets its mapped index, any other name gets *)
(* its position in the list and one warning that quotes it, the warnings   *)
(* coming in list order; and predict_currents goes on to return velocities *)
(* for a list that holds unmapped names.                                   *)
(***************************************************************************)
NamesMapped == last # None /\ last.endpoint = "ttide_indices"

Unmapped(name) == name \in {"Q1", "XX"}

C15_FallbackIndices ==
    /\ NamesMapped =>
          LET names == last.constituent_names
              earlier(i) == Cardinality({j \in DOMAIN names : j < i /\ Unmapped(names[j])})
          IN  /\ DOMAIN last.indices = DOMAIN names
              /\ \A i \in DOMAIN names :
                    /\ names[i] = "M2" => last.indices[i] = 0
                    /\ names[i] = "S2" => last.indices[i] = 1
                    /\ names[i] = "M6" => last.indices[i] = 7
                    /\ Unmapped(names[i]) =>
                          /\ last.indices[i] = i
                          /\ last.warnings[earlier(i)] = names[i]
              /\ Size(last.warnings) = Cardinality({i \in DOMAIN names : Unmapped(names[i])})
    /\ (Predicted /\ Size(last.constituent_names) = 2
           /\ \E i \in DOMAIN last.constituent_names : Unmapped(last.constituent_names[i])) =>
          /\ ~last.out.raised
          /\ DOMAIN last.out.u = DOMAIN last.u_amp

\* A list with an unmapped name after a mapped one and a second unmapped name
\* later: the fallback indices are positions 1 and 2, with two warnings.
C15_Witness ==
    /\ NamesMapped
    /\ Size(last.constituent_names) = 3
    /\ ~Unmapped(last.constituent_names[0])
    /\ Unmapped(last.constituent_names[1]) /\ Unmapped(last.constituent_names[2])
    /\ last.indices[1] = 1 /\ last.indices[2] = 2
    /\ Size(last.warnings) = 2

(***************************************************************************)
(* Vocabulary of the builder properties.                                   *)
(***************************************************************************)
BuildRead == build # None /\ build.source # None      \* the run has read a source
Built == BuildRead /\ build.ds_zarr # None            \* and holds ds_zarr in memory

SourceNodes == Size(build.source.lat)
SourceElements == DOMAIN build.source.ele[0]

\* Every vertex index of the source lies in lo..hi.
VerticesWithin(lo, hi) ==
    \A e \in SourceElements : \A j \in Range0(3) : build.source.ele[j][e] \in lo..hi

\* Stored vertex (e, j) is the sorted position of source node `orig`.
StoredVertexIs(e, j, orig) ==
    LET new == build.ds_zarr.elements[e][j]
    IN  /\ new \in Range0(SourceNodes)
        /\ build.ds_zarr.original_node_index[new] = orig
        /\ build.ds_zarr.depth[new] = build.source.depth[orig]

C17_MalformedRejected ==
    (BuildRead /\ ~VerticesWithin(1, SourceNodes)) =>
        /\ build.pc = "failed"
        /\ build.ds_zarr = None

(***************************************************************************)
(* C18.  A build whose input is malformed (a node coordinate that is not   *)
(* finite, or a name of MAIN_CONSTITUENTS that the source does not hold)   *)
(* aborts and writes nothing at the output location.                       *)
(***************************************************************************)
NonFiniteCoordinate ==
    \E i \in DOMAIN build.source.lat :
        build.source.lat[i] = NaN \/ build.source.lon[i] = NaN

UnresolvedConstituent ==
    \E k \in DOMAIN MAIN_CONSTITUENTS :
        \A t \in DOMAIN build.source.tidenames :
            build.source.tidenames[t].text # MAIN_CONSTITUENTS[k]

C18_MalformedAborts ==
    (BuildRead /\ (NonFiniteCoordinate \/ UnresolvedConstituent)) =>
        /\ build.pc \notin {"write", "done"}
        /\ build.written = 0

(***************************************************************************)
(* C19.  Builder output is all or nothing: when a run has failed, at any   *)
(* step, the output location holds no partially written store of that run  *)
(* (it holds nothing, or a complete store).                                *)
(***************************************************************************)
CompleteStore(store) == DOMAIN store = {WriteOrder[i] : i \in 1..Len(WriteOrder)}

C19_AllOrNothing ==
    (build # None /\ build.pc = "failed") => (zarr = None \/ CompleteStore(zarr))

(***************************************************************************)
(* C20.  The values /info returns are computed once from the loaded store  *)
(* and reused: an /info request that follows an answered /info request     *)
(* returns the same values and does not compute the totals and ranges over *)
(* the node arrays again.                                                  *)
(***************************************************************************)
C20_InfoComputedOnce ==
    ( /\ before # None /\ before.endpoint = "info" /\ before.resp.status = 200
      /\ last # None /\ last.endpoint = "info" ) =>
        /\ last.resp = before.resp
        /\ last.ran = <<"load">>

(***************************************************************************)
(* C21.  The constituent name list of a successful /mesh response equals   *)
(* the constituent list of the store: the same names in the same order as  *)
(* the list handed to the synthesis, for every box and every number of     *)
(* selected nodes.                                                         *)
(* The response takes the list from nodes_ds, the result of                *)
(* ds.where(bbox_mask, drop=True), where constituent_names has been        *)
(* broadcast over the selected nodes: each item is the listing of one row. *)
(***************************************************************************)
C21_ConstituentList ==
    MeshOk => last.resp.constituents = str_each(zarr.constituent_names, 1)

(***************************************************************************)
(* C22.  A /mesh time parameter written without a UTC offset is taken as a *)
(* UTC instant: on the same mesh and box, the request with time T (no      *)
(* offset) has the same outcome and the same velocities as the request     *)
(* with time T followed by Z.  When the time parameter is omitted the      *)
(* prediction instant is the UTC clock reading: the response carries that  *)
(* reading as an aware time, and its velocities are those of the request   *)
(* that names the reading explicitly with Z.                               *)
(***************************************************************************)
\* `before` and `last` are /mesh requests on the same box that reached the
\* handler body.
SameBoxTwice ==
    /\ before # None /\ before.endpoint = "mesh" /\ before.store # None
    /\ MeshSelected
    /\ SameBox(before.req, last.req)

NaiveThenZ ==
    /\ SameBoxTwice
    /\ before.req.time.kind = "iso" /\ ~before.req.time.z
    /\ last.req.time.kind = "iso" /\ last.req.time.z
    /\ before.req.time.t = last.req.time.t

OmittedThenZ ==
    /\ SameBoxTwice
    /\ before.req.time.kind = "none"
    /\ last.req.time.kind = "iso" /\ last.req.time.z
    /\ before.now = last.req.time.t

SameVelocities ==
    /\ last.resp.status = before.resp.status
    /\ last.resp.status = 200 =>
          /\ last.resp.nodes.u_velocity = before.resp.nodes.u_velocity
          /\ last.resp.nodes.v_velocity = before.resp.nodes.v_velocity

C22_NaiveIsUtc ==
    /\ NaiveThenZ => SameVelocities
    /\ OmittedThenZ => SameVelocities
    /\ (MeshOk /\ last.req.time.kind = "none") =>
            last.resp.time = [t |-> last.now, aware |-> TRUE]

\* Time T after the reference epoch asked without offset and then with Z, both
\* answered with the velocities of two or more nodes.
C22_Witness ==
    /\ NaiveThenZ
    /\ last.req.time.t > REFERENCE_TIME
    /\ last.resp.status = 200
    /\ last.resp.nodes.count >= 2

(***************************************************************************)
(* C23.  Within one synthesis request, two distinct constituent names      *)
(* never receive the same nodal-correction index from _get_ttide_indices,  *)
(* also when one or more names are unmapped and take the sequential        *)
(* fallback: no constituent's amplitude and frequency are paired with      *)
(* another constituent's correction.                                       *)
(***************************************************************************)
C23_NoIndexCollision ==
    NamesMapped =>
        \A i, j \in DOMAIN last.constituent_names :
            last.constituent_names[i] # last.constituent_names[j]
                => last.indices[i] # last.indices[j]

(***************************************************************************)
(* C24.  For every source triangle t and vertex position j, remap_elements *)
(* keeps the triangle at position t and satisfies                          *)
(*     original_node_index[elements_sorted[t][j]] = source_elements[t][j], *)
(* every stored index lies in [0, N), and the three stored indices of a    *)
(* triangle are distinct whenever the three source indices are.            *)
(* source_elements is the array handed to remap_elements: the source       *)
(* connectivity after the base conversion, transposed.                     *)
(***************************************************************************)
SourceElementsNc(t, j) == build.source.ele[j][t] - 1

C24_RemapIdentity ==
    Built =>
        /\ DOMAIN build.ds_zarr.elements = SourceElements
        /\ \A t \in SourceElements :
              /\ \A j \in Range0(3) :
                    /\ build.ds_zarr.elements[t][j] \in Range0(SourceNodes)
                    /\ build.ds_zarr.original_node_index[build.ds_zarr.elements[t][j]]
                          = SourceElementsNc(t, j)
              /\ \A j, k \in Range0(3) :
                    SourceElementsNc(t, j) # SourceElementsNc(t, k)
                        => build.ds_zarr.elements[t][j] # build.ds_zarr.elements[t][k]

(***************************************************************************)
(* C25.  The build order is a stable sort by spatial key: the nodes are in *)
(* non-decreasing key order, and any two nodes with equal spatial key      *)
(* appear in ascending original node index, so that the permutation is a   *)
(* function of the input alone.                                            *)
(***************************************************************************)
\* The sort index `order` is the stable sort of the keys.
StableOrder(order, keys) ==
    \A a, b \in DOMAIN order :
        a < b => /\ key_le(keys[order[a]], keys[order[b]])
                 /\ keys[order[a]] = keys[order[b]] => order[a] < order[b]

C25_StableSort ==
    Built =>
        \E nan_cast \in {0, Pow2(CurveOrder) - 1} :
            StableOrder(build.ds_zarr.original_node_index,
                        spatial_keys(build.source.lat, build.source.lon, nan_cast))

(***************************************************************************)
(* C26.  In the built Sorted Mesh, original_node_index is a permutation of *)
(* [0, N) and, for every new index j, each per-node field (lat, lon,       *)
(* depth, and every constituent column of u_amp, v_amp, u_phase, v_phase)  *)
(* at j equals the source field at original_node_index[j]: one and the     *)
(* same permutation is applied to all per-node arrays.                     *)
(***************************************************************************)
\* Column c of the stored amplitude and phase arrays is column t of the source.
StoredColumnIs(c, t) ==
    /\ parse_tide_names(build.source.tidenames)[t] = build.ds_zarr.constituent_names[c]
    /\ \A j \in DOMAIN build.ds_zarr.lat :
          LET orig == build.ds_zarr.original_node_index[j]
          IN  /\ build.ds_zarr.u_amp[j][c] = build.source.u_amp[orig][t]
              /\ build.ds_zarr.v_amp[j][c] = build.source.v_amp[orig][t]
              /\ build.ds_zarr.u_phase[j][c] = build.source.u_phase[orig][t]
              /\ build.ds_zarr.v_phase[j][c] = build.source.v_phase[orig][t]

C26_OnePermutation ==
    Built =>
        LET ds == build.ds_zarr
            orig == ds.original_node_index
        IN  /\ DOMAIN orig = Range0(SourceNodes)
            /\ {orig[j] : j \in DOMAIN orig} = Range0(SourceNodes)
            /\ DOMAIN ds.lat = Range0(SourceNodes)
            /\ \A j \in Range0(SourceNodes) :
                  /\ ds.lat[j] = build.source.lat[orig[j]]
                  /\ ds.lon[j] = build.source.lon[orig[j]]
                  /\ ds.depth[j] = build.source.depth[orig[j]]
            /\ \A c \in DOMAIN ds.constituent_names :
                  \E t \in DOMAIN build.source.tidenames : StoredColumnIs(c, t)

\* A source of three nodes that the sort reorders: node 0 is not first.
C26_Witness ==
    /\ Built
    /\ SourceNodes = 3
    /\ build.ds_zarr.original_node_index[0] # 0
    /\ \A i \in Range0(3) : build.source.lat[i] # NaN
    /\ \A i, k \in Range0(3) :
          i # k => build.source.lat[i] # build.source.lat[k]
                     \/ build.source.lon[i] # build.source.lon[k]

(***************************************************************************)
(* C27.  In the built Sorted Mesh, for every constituent position i,       *)
(* constituent_names[i], tidefreqs[i] and column i of u_amp, v_amp,        *)
(* u_phase and v_phase all come from the same source constituent, also     *)
(* when some of the declared main constituents are absent from the source  *)
(* and are skipped.                                                        *)
(***************************************************************************)
C27_ConstituentAlignment ==
    Built =>
        /\ DOMAIN build.ds_zarr.tidefreqs = DOMAIN build.ds_zarr.constituent_names
        /\ \A j \in DOMAIN build.ds_zarr.lat :
              DOMAIN build.ds_zarr.u_amp[j] = DOMAIN build.ds_zarr.constituent_names
        /\ \A i \in DOMAIN build.ds_zarr.constituent_names :
              \E t \in DOMAIN build.source.tidenames :
                  /\ build.ds_zarr.tidefreqs[i] = build.source.tidefreqs[t]
                  /\ StoredColumnIs(i, t)

\* A source without N2: seven of the eight main constituents are stored, and
\* the columns after the gap (K1 in position 2) have moved up.
C27_Witness ==
    /\ Built
    /\ SourceNodes >= 2
    /\ UnresolvedConstituent
    /\ Size(build.ds_zarr.constituent_names) = Size(MAIN_CONSTITUENTS) - 1
    /\ build.ds_zarr.constituent_names[2] = "K1"

(***************************************************************************)
(* C28.  For a curve of order k, hilbert_encode(x, y, k) maps the cells    *)
(* 0 <= x, y < 2^k one-to-one onto the keys [0, 4^k): the key of a cell is *)
(* in that range, no other cell has it, and every key of the range is the  *)
(* key of some cell.  Two cells whose keys are consecutive (d and d + 1)   *)
(* are grid neighbours: they differ by exactly 1 in exactly one coordinate.*)
(***************************************************************************)
Encoded == last # None /\ last.endpoint = "hilbert_encode"

\* The number a curve index stands for (orders below 16).
KeyValue(d) == d.hi * HalfWord + d.lo

Neighbours(x1, y1, x2, y2) ==
    \/ x1 = x2 /\ (y1 = y2 + 1 \/ y2 = y1 + 1)
    \/ y1 = y2 /\ (x1 = x2 + 1 \/ x2 = x1 + 1)

C28_HilbertCurve ==
    Encoded =>
        LET k == last.order
            cells == Range0(Pow2(k))
            key(x, y) == KeyValue(hilbert_encode(x, y, k))
            d == KeyValue(last.d)
        IN  /\ d \in Range0(Pow2(2 * k))
            /\ \A x, y \in cells :
                  /\ key(x, y) = d => (x = last.x /\ y = last.y)
                  /\ key(x, y) = d + 1 => Neighbours(last.x, last.y, x, y)
            /\ d + 1 < Pow2(2 * k) => \E x, y \in cells : key(x, y) = d + 1
            /\ d > 0 => \E x, y \in cells : key(x, y) = d - 1

\* A cell in the middle of the order-3 grid, with a key that has a successor.
C28_Witness ==
    /\ Encoded
    /\ last.order = 3
    /\ last.x = 4 /\ last.y = 3
    /\ KeyValue(last.d) \in 1..62

(***************************************************************************)
(* C29.  The /mesh handler checks the node count before it parses the time *)
(* parameter: a request with an unparseable time and a box that selects    *)
(* zero nodes is answered 404 (EmptyResult), one with an unparseable time  *)
(* and more nodes than the ceiling is answered as too many nodes, never    *)
(* with the invalid-time error; the invalid-time error is reported only    *)
(* for requests whose match count is between 1 and the ceiling.            *)
(***************************************************************************)
ChecksApplied == last # None /\ last.endpoint = "request_checks"

InvalidTime(resp) == resp.status = 400 /\ resp.detail[1] = "Invalid time format"

C29_CountBeforeTime ==
    /\ (MeshSelected /\ last.req.time.kind = "bad") =>
          IF NodesInBox(last.req) = {}
          THEN last.resp = HTTPException(404, <<"No nodes found in bounding box">>)
          ELSE InvalidTime(last.resp)
    /\ (MeshSelected /\ InvalidTime(last.resp)) =>
          /\ last.req.time.kind = "bad"
          /\ Cardinality(NodesInBox(last.req)) \in 1..NodeCeiling
    /\ (ChecksApplied /\ last.time.kind = "bad") =>
          last.outcome = IF last.num_nodes = 0 THEN "empty"
                         ELSE IF last.num_nodes > NodeCeiling THEN "too_many"
                         ELSE "bad_time"
    /\ (ChecksApplied /\ last.outcome = "bad_time") =>
          /\ last.time.kind = "bad"
          /\ last.num_nodes \in 1..NodeCeiling

\* A store of two or more nodes queried with an unparseable time and a box
\* that misses every node.
C29_Witness ==
    /\ MeshSelected
    /\ last.req.time.kind = "bad"
    /\ NodesInBox(last.req) = {}
    /\ Size(zarr.lat) >= 2
    /\ last.resp.status = 404

(***************************************************************************)
(* C30.  For every box with min_lat > max_lat or min_lon > max_lon (each   *)
(* bound within its validated range), the /mesh query returns no sub-mesh: *)
(* no node satisfies the closed inequalities, node selection runs and      *)
(* finds nothing, and the request fails with the 404 of the empty result   *)
(* rather than being rejected as a malformed box before node selection.    *)
(***************************************************************************)
InvertedBox(req) == req.min_lat > req.max_lat \/ req.min_lon > req.max_lon

C30_InvertedBox ==
    (MeshSelected /\ InvertedBox(last.req)) =>
        /\ NodesInBox(last.req) = {}
        /\ last.resp = HTTPException(404, <<"No nodes found in bounding box">>)
        /\ last.ran = <<"load", "select">>

\* A box with its latitude bounds swapped around a node of the store: the node
\* lies between the two bounds and within the longitude bounds.
C30_Witness ==
    /\ MeshSelected
    /\ last.req.min_lat > last.req.max_lat
    /\ last.req.min_lon <= last.req.max_lon
    /\ \E i \in DOMAIN zarr.lat :
          /\ last.req.max_lat <= zarr.lat[i] /\ zarr.lat[i] <= last.req.min_lat
          /\ last.req.min_lon <= zarr.lon[i] /\ zarr.lon[i] <= last.req.max_lon
    /\ last.resp.status = 404

====
